---- MODULE Spec2Model ----
(***************************************************************************)
(* Kafka Collector (src/src/main.rs): the bootstrap sequence of main() and *)
(* the per-request handlers of the HTTP server it starts.                  *)
(*                                                                         *)
(* Paths are sequences of characters, so that emptiness, equality and      *)
(* prefixes of paths are what they are for Rust strings.  Topics are       *)
(* strings; "" is the empty topic.                                         *)
(***************************************************************************)
EXTENDS Integers, Sequences, FiniteSets, TLC

VARIABLES pc, config, paths, idx, err, producers, connectivity,
          endpoint_handlers, listener, routes, requests, sent

vars == <<pc, config, paths, idx, err, producers, connectivity,
          endpoint_handlers, listener, routes, requests, sent>>

(***************************************************************************)
(* Bounds of the model.                                                    *)
(***************************************************************************)
\* Largest number of endpoint rules in a configuration document.
MaxRules == 2

\* Number of HTTP requests the server receives in one run.
MaxRequests == 2

(***************************************************************************)
(* Input alphabets.                                                        *)
(***************************************************************************)
EmptyPath == <<>>

HealthPath == <<"/", "h", "e", "a", "l", "t", "h">>

PathA == <<"/", "a">>

PathAB == <<"/", "a", "/", "b">>

\* Paths a configuration document may give to a rule.
ConfigPaths == {EmptyPath, PathA, HealthPath}

\* (kafka_topic, kafka_partition) pairs a configuration document may give.
Destinations == {<<"", 0>>, <<"events-raw", 0>>, <<"audit", 1>>}

\* EndpointConfig values.
EndpointConfigs ==
    {[path |-> p, kafka_topic |-> d[1], kafka_partition |-> d[2]] :
        p \in ConfigPaths, d \in Destinations}

\* Config.endpoints: every ordered sequence of at most MaxRules rules.
Configs == UNION {[1..n -> EndpointConfigs] : n \in 0..MaxRules}

\* Request paths: a request line never has an empty path.  PathAB is never
\* configured: it extends the configurable PathA.
RequestPaths == {PathA, PathAB, HealthPath}

Methods == {"GET", "POST"}

Bodies == {"", "hello"}

\* Errors the delivery future of rdkafka resolves to.
KafkaErrors == {"broker not available", "Message timed out"}

ReqIds == 1..MaxRequests

(***************************************************************************)
(* Values.                                                                 *)
(***************************************************************************)
NoError == [kind |-> "None", path |-> EmptyPath]

\* "Endpoint path cannot be empty"
EmptyPathError == [kind |-> "EmptyPath", path |-> EmptyPath]

\* format!("Kafka topic for path {} cannot be empty", endpoint.path)
EmptyTopicError(path) == [kind |-> "EmptyTopic", path |-> path]

\* format!("Duplicate path: {}", endpoint.path)
DuplicatePathError(path) == [kind |-> "DuplicatePath", path |-> path]

LoadError == [kind |-> "LoadFailed", path |-> EmptyPath]

ProducerError == [kind |-> "ProducerCreationFailed", path |-> EmptyPath]

BindError == [kind |-> "BindFailed", path |-> EmptyPath]

NoResponse == [code |-> 0]

\* HttpResponse::Ok().body("OK")
HealthResponse == [code |-> 200, body |-> "OK"]

\* actix-web's default response when no route matches.
NotFoundResponse == [code |-> 404]

\* HttpResponse::Ok().json({status, message, topic, partition})
SuccessResponse(topic, partition) ==
    [code |-> 200, status |-> "success", message |-> "Message sent to Kafka",
     topic |-> topic, partition |-> partition]

\* ErrorResponse that reports the fixed message instead of the error `e`.
ErrorResponse_FixedText(e) ==
    [code |-> 500, status |-> "error",
     message |-> "Failed to send message to Kafka",
     error |-> "Failed to send message to Kafka"]

\* HttpResponse::InternalServerError().json({status, message, error})
ErrorResponse(e) ==
    [code |-> 500, status |-> "error",
     message |-> "Failed to send message to Kafka", error |-> e]

\* FutureRecord that uses the body as the key and sends no payload.
FutureRecord_BodyAsKey(topic, partition, body) ==
    [topic |-> topic, partition |-> partition, payload |-> "", key |-> body]

\* FutureRecord::to(&topic).partition(partition).payload(body).key("")
FutureRecord(topic, partition, body) ==
    [topic |-> topic, partition |-> partition, payload |-> body, key |-> ""]

\* Delivery results of producer.send(...).await.
NoDelivery == [ok |-> FALSE, error |-> ""]

DeliveryOk == [ok |-> TRUE, error |-> ""]

DeliveryErr(e) == [ok |-> FALSE, error |-> e]

\* A request slot: the request, the topic and partition its handler
\* captured, the delivery result it awaited and the response it returned.
IdleRequest ==
    [state |-> "idle", method |-> "GET", path |-> HealthPath, body |-> "",
     topic |-> "", partition |-> 0, delivery |-> NoDelivery,
     response |-> NoResponse]

(***************************************************************************)
(* Bootstrap: main().                                                      *)
(***************************************************************************)
Init ==
    /\ pc = "load"
    /\ config = <<>>
    /\ paths = {}
    /\ idx = 0
    /\ err = NoError
    /\ producers = 0
    /\ connectivity = "unchecked"
    /\ endpoint_handlers = <<>>
    /\ listener = FALSE
    /\ routes = <<>>
    /\ requests = [r \in ReqIds |-> IdleRequest]
    /\ sent = [r \in ReqIds |-> <<>>]

\* return Err(...) / the ? operator: main returns the error, the process ends.
Exit(e) ==
    /\ pc' = "exit"
    /\ err' = e

\* The configuration file opens and parses.
LoadConfig ==
    /\ pc = "load"
    /\ \E c \in Configs : config' = c
    /\ pc' = "validate"
    /\ UNCHANGED <<paths, idx, err, producers, connectivity,
                   endpoint_handlers, listener, routes, requests, sent>>

\* The configuration file is missing or malformed.
LoadConfigFails ==
    /\ pc = "load"
    /\ Exit(LoadError)
    /\ UNCHANGED <<config, paths, idx, producers, connectivity,
                   endpoint_handlers, listener, routes, requests, sent>>

\* ValidateEndpoint without the `!paths.insert(..)` check.
ValidateEndpoint_NoDuplicateCheck(endpoint, seen) ==
    IF Len(endpoint.path) = 0 THEN EmptyPathError
    ELSE IF endpoint.kafka_topic = "" THEN EmptyTopicError(endpoint.path)
    ELSE NoError

\* ValidateEndpoint with the topic check ahead of the path check.
ValidateEndpoint_TopicFirst(endpoint, seen) ==
    IF endpoint.kafka_topic = "" THEN EmptyTopicError(endpoint.path)
    ELSE IF Len(endpoint.path) = 0 THEN EmptyPathError
    ELSE IF endpoint.path \in seen THEN DuplicatePathError(endpoint.path)
    ELSE NoError

\* ValidateEndpoint with the duplicate test ahead of the topic check.
ValidateEndpoint_DuplicateFirst(endpoint, seen) ==
    IF Len(endpoint.path) = 0 THEN EmptyPathError
    ELSE IF endpoint.path \in seen THEN DuplicatePathError(endpoint.path)
    ELSE IF endpoint.kafka_topic = "" THEN EmptyTopicError(endpoint.path)
    ELSE NoError

\* ValidateEndpoint that treats "/health" as a path already taken.
ValidateEndpoint_HealthReserved(endpoint, seen) ==
    IF Len(endpoint.path) = 0 THEN EmptyPathError
    ELSE IF endpoint.kafka_topic = "" THEN EmptyTopicError(endpoint.path)
    ELSE IF endpoint.path \in seen \cup {HealthPath}
    THEN DuplicatePathError(endpoint.path)
    ELSE NoError

\* The error one iteration of the validation loop returns for `endpoint`
\* given the set `seen` of paths inserted so far; NoError when it passes.
ValidateEndpoint(endpoint, seen) ==
    IF Len(endpoint.path) = 0 THEN EmptyPathError
    ELSE IF endpoint.kafka_topic = "" THEN EmptyTopicError(endpoint.path)
    ELSE IF endpoint.path \in seen THEN DuplicatePathError(endpoint.path)
    ELSE NoError

\* ValidateStep whose error branches do not return: the loop goes on.
ValidateStep_NoReturn ==
    /\ pc = "validate"
    /\ idx < Len(config)
    /\ paths' = paths \cup {config[idx + 1].path}
    /\ idx' = idx + 1
    /\ UNCHANGED <<pc, err, config, producers, connectivity,
                   endpoint_handlers, listener, routes, requests, sent>>

\* One iteration of `for endpoint in &config.endpoints`.
ValidateStep ==
    /\ pc = "validate"
    /\ idx < Len(config)
    /\ LET endpoint == config[idx + 1]
           e == ValidateEndpoint(endpoint, paths)
       IN  IF e # NoError
           THEN /\ Exit(e)
                /\ UNCHANGED <<paths, idx>>
           ELSE /\ paths' = paths \cup {endpoint.path}
                /\ idx' = idx + 1
                /\ UNCHANGED <<pc, err>>
    /\ UNCHANGED <<config, producers, connectivity, endpoint_handlers,
                   listener, routes, requests, sent>>

\* ValidateDone that leaves the loop before every rule was examined.
ValidateDone_Early ==
    /\ pc = "validate"
    /\ pc' = "create"
    /\ UNCHANGED <<config, paths, idx, err, producers, connectivity,
                   endpoint_handlers, listener, routes, requests, sent>>

\* The validation loop ends: every rule passed.
ValidateDone ==
    /\ pc = "validate"
    /\ idx = Len(config)
    /\ pc' = "create"
    /\ UNCHANGED <<config, paths, idx, err, producers, connectivity,
                   endpoint_handlers, listener, routes, requests, sent>>

\* ClientConfig::new()...create() succeeds.
CreateProducer ==
    /\ pc = "create"
    /\ producers' = producers + 1
    /\ pc' = "connect"
    /\ UNCHANGED <<config, paths, idx, err, connectivity,
                   endpoint_handlers, listener, routes, requests, sent>>

\* ClientConfig::new()...create() fails.
CreateProducerFails ==
    /\ pc = "create"
    /\ Exit(ProducerError)
    /\ UNCHANGED <<config, paths, idx, producers, connectivity,
                   endpoint_handlers, listener, routes, requests, sent>>

\* The three outcomes of fetch_metadata(None, 5s).
ConnectivityOutcomes == {"brokers", "zero_brokers", "metadata_error"}

\* AfterConnectivity that propagates a metadata error with `?`.
AfterConnectivity_AbortOnError(o) ==
    IF o = "metadata_error" THEN "exit" ELSE "register"

\* Where main continues after the connectivity check with outcome `o`.
AfterConnectivity(o) == "register"

\* Test Kafka connection by getting metadata.
CheckConnectivity ==
    /\ pc = "connect"
    /\ \E o \in ConnectivityOutcomes :
          /\ connectivity' = o
          /\ pc' = AfterConnectivity(o)
    /\ UNCHANGED <<config, paths, idx, err, producers,
                   endpoint_handlers, listener, routes, requests, sent>>

\* Handler that loses the configured partition.
Handler_DefaultPartition(endpoint) ==
    <<endpoint.path, endpoint.kafka_topic, 0>>

\* (path, topic, partition) pushed for `endpoint`.
Handler(endpoint) ==
    <<endpoint.path, endpoint.kafka_topic, endpoint.kafka_partition>>

\* One iteration of `for endpoint in &endpoints`: endpoint_handlers.push.
RegisterEndpoint ==
    /\ pc = "register"
    /\ Len(endpoint_handlers) < Len(config)
    /\ endpoint_handlers' =
          Append(endpoint_handlers, Handler(config[Len(endpoint_handlers) + 1]))
    /\ UNCHANGED <<pc, config, paths, idx, err, producers, connectivity,
                   listener, routes, requests, sent>>

\* The registration loop ends.
RegisterDone ==
    /\ pc = "register"
    /\ Len(endpoint_handlers) = Len(config)
    /\ pc' = "bind"
    /\ UNCHANGED <<config, paths, idx, err, producers, connectivity,
                   endpoint_handlers, listener, routes, requests, sent>>

\* HttpServer::new(factory).bind(&server_addr) succeeds.
Bind ==
    /\ pc = "bind"
    /\ listener' = TRUE
    /\ pc' = "run"
    /\ UNCHANGED <<config, paths, idx, err, producers, connectivity,
                   endpoint_handlers, routes, requests, sent>>

\* bind(&server_addr) fails: the address is unavailable.
BindFails ==
    /\ pc = "bind"
    /\ Exit(BindError)
    /\ UNCHANGED <<config, paths, idx, producers, connectivity,
                   endpoint_handlers, listener, routes, requests, sent>>

\* HealthRoute registered with web::post() instead of web::get().
HealthRoute_Post ==
    [method |-> "POST", path |-> HealthPath, handler |-> "health_check",
     topic |-> "", partition |-> 0]

\* .route("/health", web::get().to(health_check))
HealthRoute ==
    [method |-> "GET", path |-> HealthPath, handler |-> "health_check",
     topic |-> "", partition |-> 0]

\* app.route(&path, web::post().to(closure capturing topic, partition))
ForwardRoute(h) ==
    [method |-> "POST", path |-> h[1], handler |-> "forward",
     topic |-> h[2], partition |-> h[3]]

\* The application factory: the health route, then one route per handler.
BuildApp(handlers) ==
    <<HealthRoute>> \o [i \in 1..Len(handlers) |-> ForwardRoute(handlers[i])]

\* .run(): the workers call the factory and start serving.
Run ==
    /\ pc = "run"
    /\ routes' = BuildApp(endpoint_handlers)
    /\ pc' = "serving"
    /\ UNCHANGED <<config, paths, idx, err, producers, connectivity,
                   endpoint_handlers, listener, requests, sent>>

(***************************************************************************)
(* Serving: the router and the handlers.                                   *)
(***************************************************************************)
\* p is a prefix of q.
IsPrefix(p, q) == Len(p) <= Len(q) /\ SubSeq(q, 1, Len(p)) = p

\* RouteMatches that accepts every path the route's path is a prefix of.
RouteMatches_Prefix(route, method, path) ==
    /\ route.method = method
    /\ IsPrefix(route.path, path)

\* A route matches a request by its method guard and its exact path.
RouteMatches(route, method, path) ==
    /\ route.method = method
    /\ route.path = path

\* Index of the first registered route matching the request; 0 when none.
Dispatch(app, method, path) ==
    LET hits == {i \in 1..Len(app) : RouteMatches(app[i], method, path)}
    IN  IF hits = {} THEN 0
        ELSE CHOOSE i \in hits : \A j \in hits : i <= j

\* The records the handler of `route` hands to producer.send for `body`.
HandlerSends(route, body) ==
    IF route.handler = "forward"
    THEN <<FutureRecord(route.topic, route.partition, body)>>
    ELSE <<>>

\* A request arrives and is routed; ids are given in order of arrival.
Receive(r) ==
    /\ pc = "serving"
    /\ requests[r].state = "idle"
    /\ IF r = 1 THEN TRUE ELSE requests[r - 1].state # "idle"
    /\ \E method \in Methods, path \in RequestPaths, body \in Bodies :
          LET i == Dispatch(routes, method, path)
              req == [IdleRequest EXCEPT !.method = method,
                                         !.path = path,
                                         !.body = body]
          IN  IF i = 0
              THEN /\ requests' = [requests EXCEPT ![r] =
                          [req EXCEPT !.state = "responded",
                                      !.response = NotFoundResponse]]
                   /\ UNCHANGED sent
              ELSE IF routes[i].handler = "health_check"
              THEN /\ requests' = [requests EXCEPT ![r] =
                          [req EXCEPT !.state = "responded",
                                      !.response = HealthResponse]]
                   /\ sent' = [sent EXCEPT ![r] =
                                  @ \o HandlerSends(routes[i], body)]
              ELSE /\ requests' = [requests EXCEPT ![r] =
                          [req EXCEPT !.state = "forwarding",
                                      !.topic = routes[i].topic,
                                      !.partition = routes[i].partition]]
                   /\ sent' = [sent EXCEPT ![r] =
                                  @ \o HandlerSends(routes[i], body)]
    /\ UNCHANGED <<pc, config, paths, idx, err, producers, connectivity,
                   endpoint_handlers, listener, routes>>

\* The response the forwarding closure builds from the delivery result.
DeliveryResponse(result, topic, partition) ==
    IF result.ok
    THEN SuccessResponse(topic, partition)
    ELSE ErrorResponse(result.error)

\* Respond that answers only a successful delivery and keeps waiting on an
\* error.
Respond_OnlyOnOk(r, result) ==
    IF result.ok
    THEN requests' = [requests EXCEPT ![r] =
            [requests[r] EXCEPT
                !.state = "responded",
                !.delivery = result,
                !.response = SuccessResponse(requests[r].topic,
                                             requests[r].partition)]]
    ELSE requests' = requests

\* Respond that keeps the delivery result in state shared by the handlers:
\* every request awaiting its delivery is answered from `result`.
Respond_SharedOutcome(r, result) ==
    requests' = [q \in ReqIds |->
        IF requests[q].state = "forwarding"
        THEN [requests[q] EXCEPT
                !.state = "responded",
                !.delivery = result,
                !.response = DeliveryResponse(result, requests[q].topic,
                                              requests[q].partition)]
        ELSE requests[q]]

\* The awaiting handler of request r resumes with `result` and responds.
Respond(r, result) ==
    requests' = [requests EXCEPT ![r] =
        [requests[r] EXCEPT
            !.state = "responded",
            !.delivery = result,
            !.response = DeliveryResponse(result, requests[r].topic,
                                          requests[r].partition)]]

\* producer.send(...).await resolves to Ok(delivery).
DeliverOk(r) ==
    /\ requests[r].state = "forwarding"
    /\ Respond(r, DeliveryOk)
    /\ UNCHANGED <<pc, config, paths, idx, err, producers, connectivity,
                   endpoint_handlers, listener, routes, sent>>

\* DeliverErr whose handler sends the record once more after the first
\* error before it answers.
DeliverErr_Retry(r) ==
    /\ requests[r].state = "forwarding"
    /\ IF Len(sent[r]) < 2
       THEN /\ sent' = [sent EXCEPT ![r] = Append(@, sent[r][1])]
            /\ UNCHANGED requests
       ELSE /\ \E e \in KafkaErrors : Respond(r, DeliveryErr(e))
            /\ UNCHANGED sent
    /\ UNCHANGED <<pc, config, paths, idx, err, producers, connectivity,
                   endpoint_handlers, listener, routes>>

\* DeliverErr whose handler builds a new producer after a failed send.
DeliverErr_NewProducer(r) ==
    /\ requests[r].state = "forwarding"
    /\ \E e \in KafkaErrors : Respond(r, DeliveryErr(e))
    /\ producers' = producers + 1
    /\ UNCHANGED <<pc, config, paths, idx, err, connectivity,
                   endpoint_handlers, listener, routes, sent>>

\* producer.send(...).await resolves to Err((e, _)): the broker reports an
\* error, or message.timeout.ms expires before an acknowledgment.
DeliverErr(r) ==
    /\ requests[r].state = "forwarding"
    /\ \E e \in KafkaErrors : Respond(r, DeliveryErr(e))
    /\ UNCHANGED <<pc, config, paths, idx, err, producers, connectivity,
                   endpoint_handlers, listener, routes, sent>>

Next ==
    \/ LoadConfig
    \/ LoadConfigFails
    \/ ValidateStep
    \/ ValidateDone
    \/ CreateProducer
    \/ CreateProducerFails
    \/ CheckConnectivity
    \/ RegisterEndpoint
    \/ RegisterDone
    \/ Bind
    \/ BindFails
    \/ Run
    \/ \E r \in ReqIds : Receive(r)
    \/ \E r \in ReqIds : DeliverOk(r)
    \/ \E r \in ReqIds : DeliverErr(r)

Spec == Init /\ [][Next]_vars

\* The delivery future of every forwarded request resolves: the client is
\* created with message.timeout.ms and delivery.timeout.ms, after which
\* an unacknowledged message is reported as failed.
LiveSpec == Spec /\ \A r \in ReqIds : WF_vars(DeliverErr(r))

(***************************************************************************)
(* Properties of configurations, stated on the document alone.             *)
(***************************************************************************)
\* Two rules of c have the same path.
HasDuplicatePath(c) ==
    \E i, j \in 1..Len(c) : i < j /\ c[i].path = c[j].path

\* Some rule of c has an empty path or an empty kafka_topic.
HasEmptyField(c) ==
    \E i \in 1..Len(c) : c[i].path = EmptyPath \/ c[i].kafka_topic = ""

\* Rule i of c breaks a rule of the data model.
Offends(c, i) ==
    \/ c[i].path = EmptyPath
    \/ c[i].kafka_topic = ""
    \/ \E j \in 1..(i - 1) : c[j].path = c[i].path

ValidConfig(c) == \A i \in 1..Len(c) : ~Offends(c, i)

\* The first offending rule of c in input order (c is not valid).
FirstOffender(c) ==
    CHOOSE i \in 1..Len(c) :
        Offends(c, i) /\ \A j \in 1..(i - 1) : ~Offends(c, j)

\* The error of the first offending rule: empty path, then empty topic,
\* then duplicate path.
FirstOffenderError(c) ==
    LET rule == c[FirstOffender(c)]
    IN  IF rule.path = EmptyPath THEN EmptyPathError
        ELSE IF rule.kafka_topic = "" THEN EmptyTopicError(rule.path)
        ELSE DuplicatePathError(rule.path)

\* The first rule of c that repeats the path of an earlier rule.
FirstRepeat(c) ==
    CHOOSE j \in 1..Len(c) :
        /\ \E i \in 1..(j - 1) : c[i].path = c[j].path
        /\ \A k \in 1..(j - 1) : \A i \in 1..(k - 1) : c[i].path # c[k].path

\* No rule up to the first repeated path has an empty path or topic.
CleanUpToFirstRepeat(c) ==
    \A k \in 1..FirstRepeat(c) : c[k].path # EmptyPath /\ c[k].kafka_topic # ""

\* The validation loop has run to its end or to its error.
Validated == pc \notin {"load", "validate"}

\* Nothing of the server exists: no broker client, no handler table, no
\* routes, no listener.
NotStarted ==
    /\ producers = 0
    /\ endpoint_handlers = <<>>
    /\ routes = <<>>
    /\ listener = FALSE
    /\ \A r \in ReqIds : requests[r].state = "idle"

ValidationErrorKinds == {"EmptyPath", "EmptyTopic", "DuplicatePath"}

(***************************************************************************)
(* C1                                                                      *)
(***************************************************************************)
\* C1 as stated: every configuration with two rules of the same path ends
\* validation with the duplicate-path error, and the server never starts.
C1_DuplicateAlwaysDuplicateError ==
    HasDuplicatePath(config) =>
        /\ NotStarted
        /\ Validated => (pc = "exit" /\ err.kind = "DuplicatePath")

\* C1 amended: every configuration with two rules of the same path fails
\* validation and the server never starts (no broker client, no table, no
\* listener); the error is the duplicate-path error naming the repeated path
\* when no rule up to the first repeated one has an empty path or topic, and
\* the empty-path or empty-topic error of an earlier-checked field otherwise.
C1_DuplicateFailsValidation ==
    HasDuplicatePath(config) =>
        /\ NotStarted
        /\ Validated =>
              /\ pc = "exit"
              /\ err.kind \in ValidationErrorKinds
              /\ CleanUpToFirstRepeat(config) =>
                    err = DuplicatePathError(config[FirstRepeat(config)].path)
              /\ ~CleanUpToFirstRepeat(config) =>
                    err.kind \in {"EmptyPath", "EmptyTopic"}

\* Validation has ended with the duplicate-path error.
C1_Witness ==
    /\ pc = "exit"
    /\ HasDuplicatePath(config)
    /\ err = DuplicatePathError(PathA)

(***************************************************************************)
(* C2                                                                      *)
(***************************************************************************)
\* C2 as stated: when some rule has an empty path or topic, validation fails
\* with the empty-path error if that rule's path is empty and with the
\* empty-topic error naming that rule's path if its topic is empty.
C2_EveryEmptyFieldReported ==
    HasEmptyField(config) =>
        /\ NotStarted
        /\ Validated =>
              /\ pc = "exit"
              /\ \A i \in 1..Len(config) :
                    IF config[i].path = EmptyPath
                    THEN err = EmptyPathError
                    ELSE config[i].kafka_topic = "" =>
                            err = EmptyTopicError(config[i].path)

\* C2 amended: when some rule has an empty path or topic, validation fails,
\* no table is produced and startup aborts; the error is that of the first
\* offending rule in input order: the empty-path error when its path is
\* empty, else the empty-topic error naming its path when its topic is
\* empty, else the duplicate-path error naming its path.
C2_EmptyFieldFailsValidation ==
    HasEmptyField(config) =>
        /\ NotStarted
        /\ Validated =>
              /\ pc = "exit"
              /\ err = FirstOffenderError(config)

\* Validation has ended with the empty-topic error of a rule that has a
\* non-empty path, in a document that also holds a rule with an empty path.
C2_Witness ==
    /\ pc = "exit"
    /\ err = EmptyTopicError(PathA)
    /\ \E i \in 1..Len(config) : config[i].path = EmptyPath

(***************************************************************************)
(* C3                                                                      *)
(***************************************************************************)
\* Lookup in the registered table: the (topic, partition) a POST to `path`
\* is routed to, <<>> when it is routed to no rule.
Lookup(path) ==
    LET i == Dispatch(routes, "POST", path)
    IN  IF i = 0 \/ routes[i].handler # "forward" THEN <<>>
        ELSE <<routes[i].topic, routes[i].partition>>

\* The (topic, partition) the document configures for `path`, <<>> if none.
Configured(c, path) ==
    IF \E i \in 1..Len(c) : c[i].path = path
    THEN LET i == CHOOSE i \in 1..Len(c) : c[i].path = path
         IN  <<c[i].kafka_topic, c[i].kafka_partition>>
    ELSE <<>>

Received(r) == requests[r].state # "idle"

Forwarded(r) == sent[r] # <<>>

\* C5: a forwarded request whose publish succeeds is answered 200 with
\* status "success" and the rule's topic and partition; one whose publish
\* fails is answered 500 with status "error" and the broker-reported error
\* text; a forwarded request gets no other response.
C5_DeliveryOutcomeMapping ==
    \A r \in ReqIds :
        Forwarded(r) =>
            LET req == requests[r]
                dest == Configured(config, req.path)
            IN  IF req.state = "responded"
                THEN IF req.delivery.ok
                     THEN /\ req.response.code = 200
                          /\ req.response.status = "success"
                          /\ req.response.topic = dest[1]
                          /\ req.response.partition = dest[2]
                     ELSE /\ req.response.code = 500
                          /\ req.response.status = "error"
                          /\ req.response.error = req.delivery.error
                          /\ req.delivery.error \in KafkaErrors
                ELSE /\ req.state = "forwarding"
                     /\ req.response = NoResponse

\* One forwarded request was answered 500 "broker not available" and
\* another 200 for ("audit", 1).
C5_Witness ==
    \E r, q \in ReqIds :
        /\ Forwarded(r) /\ Forwarded(q)
        /\ requests[r].response.code = 500
        /\ requests[r].response.error = "broker not available"
        /\ requests[q].response.code = 200
        /\ requests[q].response.topic = "audit"
        /\ requests[q].response.partition = 1

(***************************************************************************)
(* C6                                                                      *)
(***************************************************************************)
\* C6: every GET to the health path received by the serving server is
\* answered 200 with body "OK", whatever the connectivity check found and
\* whatever happened to other requests, and issues no publish.
C6_HealthAlwaysOk ==
    \A r \in ReqIds :
        (/\ Received(r)
         /\ requests[r].method = "GET"
         /\ requests[r].path = HealthPath) =>
            /\ requests[r].state = "responded"
            /\ requests[r].response = [code |-> 200, body |-> "OK"]
            /\ sent[r] = <<>>

\* A health GET is answered after the metadata query failed at startup
\* and an earlier request's publish failed.
C6_Witness ==
    /\ connectivity = "metadata_error"
    /\ \E r, q \in ReqIds :
          /\ q < r
          /\ requests[q].state = "responded"
          /\ requests[q].response.code = 500
          /\ requests[r].state = "responded"
          /\ requests[r].method = "GET"
          /\ requests[r].path = HealthPath
          /\ requests[r].response.code = 200

(***************************************************************************)
(* C7                                                                      *)
(***************************************************************************)
\* C7: the connectivity check never aborts startup: whichever of its three
\* outcomes it has, main goes on to register the routes, and an exit after
\* the check is a failure to bind the listener only.
C7_ConnectivityNeverAborts ==
    /\ [][pc = "connect" =>
            /\ pc' = "register"
            /\ err' = NoError
            /\ connectivity' \in ConnectivityOutcomes]_vars
    /\ []((pc = "exit" /\ connectivity # "unchecked") => err = BindError)
    /\ []((pc \in {"register", "bind", "run", "serving"}) =>
              connectivity \in ConnectivityOutcomes)

\* The listener is bound and serving after the metadata query failed.
C7_Witness ==
    /\ pc = "serving"
    /\ listener
    /\ connectivity = "metadata_error"

(***************************************************************************)
(* C8                                                                      *)
(***************************************************************************)
\* C8: a failure of configuration loading, endpoint validation or
\* broker-client creation ends the process with an error before the
\* listener is bound; whenever the listener is bound the configuration was
\* loaded and validated, the client exists, and the table is the complete
\* list of configured rules, served together with the health route.
C8_FailFastStartup ==
    /\ (err.kind \in ValidationErrorKinds
                       \cup {"LoadFailed", "ProducerCreationFailed"}) =>
          (pc = "exit" /\ ~listener /\ routes = <<>>)
    /\ (pc = "exit") => (err # NoError /\ ~listener)
    /\ (pc # "exit") => (err = NoError)
    /\ listener =>
          /\ pc \in {"run", "serving"}
          /\ ValidConfig(config)
          /\ idx = Len(config)
          /\ producers = 1
          /\ Len(endpoint_handlers) = Len(config)
          /\ \A i \in 1..Len(config) :
                endpoint_handlers[i] = <<config[i].path, config[i].kafka_topic,
                                         config[i].kafka_partition>>
    /\ (pc = "serving") =>
          /\ listener
          /\ Len(routes) = Len(config) + 1
          /\ routes[1].method = "GET"
          /\ routes[1].path = HealthPath
          /\ routes[1].handler = "health_check"
          /\ \A i \in 1..Len(config) :
                routes[i + 1] = [method |-> "POST", path |-> config[i].path,
                                 handler |-> "forward",
                                 topic |-> config[i].kafka_topic,
                                 partition |-> config[i].kafka_partition]
    /\ (\E r \in ReqIds : Received(r)) => (pc = "serving")

\* The server serves a two-rule configuration.
C8_Witness ==
    /\ pc = "serving"
    /\ listener
    /\ Len(config) = 2
    /\ Len(routes) = 3

(***************************************************************************)
(* C9                                                                      *)
(***************************************************************************)
\* C9: every request received while serving gets exactly one response
\* (health 200, forwarded 200 or 500, not-found 404): a forwarded request
\* is eventually answered, a request is answered or still being forwarded,
\* and a response once given is never changed or followed by another.
C9_EveryRequestAnswered ==
    /\ \A r \in ReqIds :
          (requests[r].state = "forwarding") ~> (requests[r].state = "responded")
    /\ [](\A r \in ReqIds :
            Received(r) =>
               \/ /\ requests[r].state = "responded"
                  /\ requests[r].response.code \in {200, 404, 500}
               \/ /\ requests[r].state = "forwarding"
                  /\ requests[r].response = NoResponse)
    /\ [][\A r \in ReqIds :
            requests[r].state = "responded" =>
               (requests'[r] = requests[r] /\ sent'[r] = sent[r])]_vars

\* A forwarded request was answered 500 after its message timed out.
C9_Witness ==
    \E r \in ReqIds :
        /\ Forwarded(r)
        /\ requests[r].state = "responded"
        /\ requests[r].response.code = 500
        /\ requests[r].response.error = "Message timed out"

(***************************************************************************)
(* C10                                                                     *)
(***************************************************************************)
\* Some rule of c has exactly the path `path`.
IsConfiguredPath(c, path) == \E i \in 1..Len(c) : c[i].path = path

RoutedToRule(r) ==
    /\ Received(r)
    /\ requests[r].method = "POST"
    /\ IsConfiguredPath(config, requests[r].path)

\* Number of publish calls made for the requests 1..n.
RECURSIVE PublishCalls(_)
PublishCalls(n) == IF n = 0 THEN 0 ELSE Len(sent[n]) + PublishCalls(n - 1)

\* C11: each forwarded request makes exactly one publish attempt, also after
\* its publish has failed, and a request that is not forwarded makes none;
\* the number of publish calls equals the number of requests routed to
\* configured paths.
C11_OnePublishPerForwardedRequest ==
    /\ \A r \in ReqIds : Len(sent[r]) = IF RoutedToRule(r) THEN 1 ELSE 0
    /\ PublishCalls(MaxRequests) = Cardinality({r \in ReqIds : RoutedToRule(r)})

\* Two requests were forwarded, one answered 500 and one 200, with two
\* publish calls in all.
C11_Witness ==
    /\ PublishCalls(MaxRequests) = 2
    /\ \E r, q \in ReqIds :
          /\ RoutedToRule(r) /\ RoutedToRule(q)
          /\ requests[r].state = "responded"
          /\ requests[r].response.code = 500
          /\ requests[q].state = "responded"
          /\ requests[q].response.code = 200

(***************************************************************************)
(* C12                                                                     *)
(***************************************************************************)
\* The response determined by a request's own method and path, the rule
\* configured for that path, and the request's own delivery result.
OwnResponse(req) ==
    IF req.method = "GET" /\ req.path = HealthPath
    THEN [code |-> 200, body |-> "OK"]
    ELSE IF req.method = "POST" /\ IsConfiguredPath(config, req.path)
    THEN IF req.delivery.ok
         THEN [code |-> 200, status |-> "success",
               message |-> "Message sent to Kafka",
               topic |-> Configured(config, req.path)[1],
               partition |-> Configured(config, req.path)[2]]
         ELSE [code |-> 500, status |-> "error",
               message |-> "Failed to send message to Kafka",
               error |-> req.delivery.error]
    ELSE [code |-> 404]

\* C12: under any interleaving of in-flight requests, a request's response
\* is a function of its own route and its own delivery outcome; a step that
\* receives or resolves one request (a failed publish included) changes no
\* other request, in flight or answered, and leaves the server serving.
C12_RequestsAreIndependent ==
    /\ [](\A r \in ReqIds :
            requests[r].state = "responded" =>
                requests[r].response = OwnResponse(requests[r]))
    /\ [][\A r \in ReqIds :
            (requests'[r] # requests[r] \/ sent'[r] # sent[r]) =>
                \A q \in ReqIds \ {r} :
                    requests'[q] = requests[q] /\ sent'[q] = sent[q]]_vars
    /\ [][pc = "serving" => pc' = "serving"]_vars

\* A later request has failed with 500 while an earlier one is still
\* awaiting its delivery.
C12_Witness ==
    \E r, q \in ReqIds :
        /\ r < q
        /\ requests[r].state = "forwarding"
        /\ requests[q].state = "responded"
        /\ requests[q].response.code = 500

(***************************************************************************)
(* C13                                                                     *)
(***************************************************************************)
\* The bootstrap steps in their order: configuration load, endpoint
\* validation, broker-client creation, connectivity check, registration of
\* the endpoint handlers, listener bind; then the workers start and serve.
StepOrder ==
    <<"load", "validate", "create", "connect", "register", "bind", "run",
      "serving">>

Position(p) == CHOOSE i \in 1..Len(StepOrder) : StepOrder[i] = p

C14_ClientAndRoutesFixed ==
    /\ [](producers <= 1)
    /\ []((pc \in {"connect", "register", "bind", "run", "serving"}) =>
              producers = 1)
    /\ [][producers' # producers =>
            (pc = "create" /\ producers = 0 /\ producers' = 1)]_vars
    /\ [][pc = "serving" =>
            /\ routes' = routes
            /\ endpoint_handlers' = endpoint_handlers
            /\ config' = config
            /\ producers' = producers]_vars

\* An unmatched request and a request whose publish failed have both been
\* answered by a server with its one client and a two-rule table.
C14_Witness ==
    /\ pc = "serving"
    /\ producers = 1
    /\ Len(routes) = 3
    /\ \E r, q \in ReqIds :
          /\ requests[r].response.code = 404
          /\ requests[q].response.code = 500

(***************************************************************************)
(* C15                                                                     *)
(***************************************************************************)
\* Validation has ended with one of its three errors.
ValidationFailed == pc = "exit" /\ err.kind \in ValidationErrorKinds

\* C15: validation reports the error of the first offending rule in input
\* order, checking within a rule the empty path, then the empty topic, then
\* the duplicate path, so that a rule that repeats an earlier path and has
\* an empty topic yields the empty-topic error; the loop has passed exactly
\* the rules before the first offending one and examines none after it.
C15_FirstOffenderReported ==
    /\ paths = {config[i].path : i \in 1..idx}
    /\ ~ValidConfig(config) => idx < FirstOffender(config)
    /\ ValidationFailed =>
          /\ ~ValidConfig(config)
          /\ idx + 1 = FirstOffender(config)
          /\ err = FirstOffenderError(config)
          /\ LET rule == config[idx + 1]
             IN  /\ rule.path = EmptyPath => err.kind = "EmptyPath"
                 /\ (rule.path # EmptyPath /\ rule.kafka_topic = "") =>
                        err = EmptyTopicError(rule.path)

\* A second rule that repeats /a and has an empty topic was reported with
\* the empty-topic error.
C15_Witness ==
    /\ ValidationFailed
    /\ Len(config) = 2
    /\ config[1].path = PathA
    /\ config[2].path = PathA
    /\ config[2].kafka_topic = ""
    /\ idx = 1
    /\ err = EmptyTopicError(PathA)

(***************************************************************************)
(* C16                                                                     *)
(***************************************************************************)
\* The loaded document is valid and has a rule whose path is "/health".
HealthRuleConfigured ==
    /\ pc # "load"
    /\ ValidConfig(config)
    /\ IsConfiguredPath(config, HealthPath)

\* C16: validation does not reserve the health path: a configuration with
\* a rule on "/health" (unique path, non-empty topic) passes validation and
\* the server starts unless client creation or bind fails; the GET health
\* route is registered first, the rule's POST route on the same path after
\* it, so that GET /health is answered by the health check and POST
\* /health is forwarded to the rule's destination.
C16_HealthPathNotReserved ==
    HealthRuleConfigured =>
        /\ err.kind \notin ValidationErrorKinds
        /\ pc = "exit" => err \in {ProducerError, BindError}
        /\ pc = "serving" =>
              /\ routes[1].method = "GET"
              /\ routes[1].path = HealthPath
              /\ routes[1].handler = "health_check"
              /\ \E i \in 2..Len(routes) :
                    /\ routes[i].method = "POST"
                    /\ routes[i].path = HealthPath
                    /\ routes[i].handler = "forward"
                    /\ <<routes[i].topic, routes[i].partition>> =
                          Configured(config, HealthPath)
        /\ \A r \in ReqIds :
              (Received(r) /\ requests[r].path = HealthPath) =>
                  IF requests[r].method = "GET"
                  THEN requests[r].response = [code |-> 200, body |-> "OK"]
                  ELSE /\ Len(sent[r]) = 1
                       /\ <<sent[r][1].topic, sent[r][1].partition>> =
                             Configured(config, HealthPath)

\* A server with a rule on "/health" has answered a GET /health with "OK"
\* and a POST /health with the success of its publish.
C16_Witness ==
    /\ pc = "serving"
    /\ HealthRuleConfigured
    /\ \E r, q \in ReqIds :
          /\ requests[r].method = "GET"
          /\ requests[r].path = HealthPath
          /\ requests[r].response = [code |-> 200, body |-> "OK"]
          /\ requests[q].method = "POST"
          /\ requests[q].path = HealthPath
          /\ requests[q].response.code = 200
          /\ requests[q].response.status = "success"

====
